---------------------------- MODULE Spec2Model ----------------------------
(***************************************************************************)
(* A model of the kakarot-indexer block transform (src/src/main.ts) and of *)
(* the transaction decoding it relies on (src/src/types/transaction.ts).   *)
(*                                                                         *)
(* transform() fans the invocations of one block out over async tasks      *)
(* (Promise.all over events.map(async ...)).  JavaScript runs the map      *)
(* callback of every element synchronously up to its first await (the      *)
(* transaction trie put), in list order; the continuations then run one    *)
(* at a time, in whatever order the awaited puts complete.                  *)
(***************************************************************************)
EXTENDS Integers, Sequences, FiniteSets, TLC

\* Longest event list of a block that the model explores.
MaxEvents == 3

\* Width of the logs bloom in bits (spec 4.8).
BloomSize == 2048

-----------------------------------------------------------------------------
(* Helpers: number <-> digit strings, bytes *)

RECURSIVE Digits(_, _)
\* The digits of n in base b, most significant first; 0 is the one digit 0.
Digits(n, b) == IF n < b THEN <<n>> ELSE Append(Digits(n \div b, b), n % b)

RECURSIVE FromDigits(_, _)
\* The number a digit string denotes in base b.
FromDigits(s, b) ==
    IF Len(s) = 0 THEN 0
    ELSE FromDigits(SubSeq(s, 1, Len(s) - 1), b) * b + s[Len(s)]

\* bigIntToHex / toHexString: the hexadecimal digits of a number.
bigIntToHex(n) == Digits(n, 16)

\* Number(hex) / BigInt(hex): the number a hexadecimal string denotes.
hexToNumber(h) == FromDigits(h, 16)

\* bigIntToBytes: the minimal big-endian bytes of a number (0 is one zero byte).
bigIntToBytes(x) == Digits(x, 256)

RECURSIVE concatBytes(_)
\* concatBytes(...arrays): the arrays' bytes, in order.
concatBytes(arrays) ==
    IF Len(arrays) = 0 THEN <<>>
    ELSE arrays[1] \o concatBytes(Tail(arrays))

\* calldata.slice(6): the elements after the six call-metadata elements.
Slice6(calldata) ==
    IF Len(calldata) <= 6 THEN <<>> ELSE SubSeq(calldata, 7, Len(calldata))

\* RLP.encode(n) of a small non-negative number: 0 is the empty string (0x80),
\* 1..127 the byte itself, larger numbers a length-prefixed big-endian string.
RLPencode(n) ==
    IF n = 0 THEN <<128>>
    ELSE IF n < 128 THEN <<n>>
    ELSE <<128 + Len(Digits(n, 256))>> \o Digits(n, 256)

\* uint256.uint256ToBN({high, low}): the 256-bit number high * 2^128 + low, kept
\* as its two 128-bit limbs, most significant first.
uint256ToBN(high, low) == <<high, low>>

-----------------------------------------------------------------------------
(* src/src/types/transaction.ts *)

\* What console.error receives, by message.
NoCalldataMsg        == "No calldata"
CallArrayLenMsg      == "Invalid call array length"
SignatureLenMsg      == "Invalid signature length"
InvalidVMsg          == "Invalid transaction: Invalid v value"
InvalidTypeMsg       == "Invalid transaction: Invalid transaction type"
LibraryErrorMsg      == "Invalid transaction: library error"
UnknownThrowMsg      == "Unknown throw"
IndexUndefinedMsg    == "Transaction index is undefined"
NotSignedMsg         == "Transaction is not signed"

\* Transaction types of the transaction library.
LegacyType     == 0
AccessListType == 1
FeeMarketType  == 2
BlobType       == 3

\* TransactionFactory.fromSerializedData(bytes): the unsigned typed transaction
\* the bytes encode, chosen by the leading byte (<= 0x7f: a typed envelope of
\* type 1, 2 or 3, any other such byte is unknown; > 0x7f: a legacy RLP list).
\* `decode` is what the library makes of the rest of the payload: "ok", a
\* thrown Error (malformed RLP), or a thrown value that is not an Error.
fromSerializedData(bytes, decode) ==
    IF decode = "NonError" THEN [kind |-> "throwNonError", type |-> 0, bytes |-> bytes]
    ELSE IF decode = "Error" \/ Len(bytes) = 0
        THEN [kind |-> "throwError", type |-> 0, bytes |-> bytes]
    ELSE IF bytes[1] <= 127 /\ bytes[1] \notin {AccessListType, FeeMarketType, BlobType}
        THEN [kind |-> "throwError", type |-> 0, bytes |-> bytes]
    ELSE [kind |-> "tx",
          type |-> IF bytes[1] <= 127 THEN bytes[1] ELSE LegacyType,
          bytes |-> bytes]

\* addSignature with a fault: the legacy lower bound on v is applied to every
\* transaction type.
addSignatureAnyType(tx, r, s, v, sign) ==
    IF tx.type \in {LegacyType, AccessListType, FeeMarketType}
    THEN IF v < 35
         THEN [kind |-> "throwError", log |-> InvalidVMsg, tx |-> <<>>]
         ELSE IF sign = "Error"
              THEN [kind |-> "throwError", log |-> LibraryErrorMsg, tx |-> <<>>]
              ELSE [kind |-> "tx", log |-> "",
                    tx |-> <<[type |-> tx.type, bytes |-> tx.bytes,
                              hasSig |-> TRUE, r |-> r, s |-> s, v |-> v]>>]
    ELSE [kind |-> "throwError", log |-> InvalidTypeMsg, tx |-> <<>>]

\* addSignature(tx, r, s, v): the signed transaction, or a thrown Error: a
\* legacy transaction with v < 35, or a type that is none of legacy,
\* access-list and fee-market.  `sign` is what the library's fromTxData makes
\* of the signed data: "ok" or a thrown Error.
addSignature(tx, r, s, v, sign) ==
    IF tx.type = LegacyType /\ v < 35
        THEN [kind |-> "throwError", log |-> InvalidVMsg, tx |-> <<>>]
    ELSE IF tx.type \in {LegacyType, AccessListType, FeeMarketType}
        THEN IF sign = "Error"
             THEN [kind |-> "throwError", log |-> LibraryErrorMsg, tx |-> <<>>]
             ELSE [kind |-> "tx", log |-> "",
                   tx |-> <<[type |-> tx.type, bytes |-> tx.bytes,
                             hasSig |-> TRUE, r |-> r, s |-> s, v |-> v]>>]
    ELSE [kind |-> "throwError", log |-> InvalidTypeMsg, tx |-> <<>>]

\* DecodeAndSign with a fault: there is no catch, so a thrown Error leaves
\* toTypedEthTx like any other thrown value.
DecodeAndSignNoCatch(bytes, r, s, v, decode, sign) ==
    LET unsigned == fromSerializedData(bytes, decode) IN
    IF unsigned.kind = "throwNonError"
        THEN [kind |-> "throw", log |-> UnknownThrowMsg, tx |-> <<>>]
    ELSE IF unsigned.kind = "throwError"
        THEN [kind |-> "throw", log |-> "", tx |-> <<>>]
    ELSE LET signed == addSignature(unsigned, r, s, v, sign) IN
         IF signed.kind = "throwError"
         THEN [kind |-> "throw", log |-> "", tx |-> <<>>]
         ELSE signed

\* The try block of toTypedEthTx: decode, then attach the signature; a thrown
\* Error is logged and gives null, any other thrown value is re-thrown.
DecodeAndSign(bytes, r, s, v, decode, sign) ==
    LET unsigned == fromSerializedData(bytes, decode) IN
    IF unsigned.kind = "throwNonError"
        THEN [kind |-> "throw", log |-> UnknownThrowMsg, tx |-> <<>>]
    ELSE IF unsigned.kind = "throwError"
        THEN [kind |-> "null", log |-> LibraryErrorMsg, tx |-> <<>>]
    ELSE LET signed == addSignature(unsigned, r, s, v, sign) IN
         IF signed.kind = "throwError"
         THEN [kind |-> "null", log |-> signed.log, tx |-> <<>>]
         ELSE signed

\* toTypedEthTx with a fault: it decodes before it checks the signature
\* length.
toTypedEthTxDecodeFirst(transaction) ==
    IF ~transaction.hasCalldata
        THEN [kind |-> "null", log |-> NoCalldataMsg, tx |-> <<>>]
    ELSE IF Len(transaction.calldata) = 0
        THEN [kind |-> "throw", log |-> "", tx |-> <<>>]
    ELSE IF transaction.calldata[1] # 1
        THEN [kind |-> "null", log |-> CallArrayLenMsg, tx |-> <<>>]
    ELSE LET bytes == concatBytes([k \in 1..Len(Slice6(transaction.calldata)) |->
                                     bigIntToBytes(Slice6(transaction.calldata)[k])])
             signature == transaction.signature
             res == DecodeAndSign(bytes, <<0, 0>>, <<0, 0>>,
                                  IF Len(signature) >= 5 THEN signature[5] ELSE 0,
                                  transaction.decode, transaction.sign)
         IN  IF res.kind = "throw" THEN res
             ELSE IF Len(signature) # 5
                 THEN [kind |-> "null", log |-> SignatureLenMsg, tx |-> <<>>]
             ELSE res

\* toTypedEthTx with a fault: it accepts any call array length.
toTypedEthTxAnyCallArray(transaction) ==
    IF ~transaction.hasCalldata
        THEN [kind |-> "null", log |-> NoCalldataMsg, tx |-> <<>>]
    ELSE IF Len(transaction.calldata) = 0
        THEN [kind |-> "throw", log |-> "", tx |-> <<>>]
    ELSE LET bytes == concatBytes([k \in 1..Len(Slice6(transaction.calldata)) |->
                                     bigIntToBytes(Slice6(transaction.calldata)[k])])
             signature == transaction.signature
         IN  IF Len(signature) # 5
                 THEN [kind |-> "null", log |-> SignatureLenMsg, tx |-> <<>>]
             ELSE DecodeAndSign(bytes,
                                uint256ToBN(signature[2], signature[1]),
                                uint256ToBN(signature[4], signature[3]),
                                signature[5],
                                transaction.decode, transaction.sign)

\* toTypedEthTx({transaction}): kind "tx" with the signed typed transaction,
\* kind "null" (the invocation is dropped, `log` goes to console.error), or
\* kind "throw" (an exception leaves the function).  An absent calldata gives
\* null; an empty calldata array is truthy, so calldata[0] is undefined and
\* BigInt(undefined) throws a TypeError outside the try block.
toTypedEthTx(transaction) ==
    IF ~transaction.hasCalldata
        THEN [kind |-> "null", log |-> NoCalldataMsg, tx |-> <<>>]
    ELSE IF Len(transaction.calldata) = 0
        THEN [kind |-> "throw", log |-> "", tx |-> <<>>]
    ELSE IF transaction.calldata[1] # 1
        THEN [kind |-> "null", log |-> CallArrayLenMsg, tx |-> <<>>]
    ELSE LET bytes == concatBytes([k \in 1..Len(Slice6(transaction.calldata)) |->
                                     bigIntToBytes(Slice6(transaction.calldata)[k])])
             signature == transaction.signature
         IN  IF Len(signature) # 5
                 THEN [kind |-> "null", log |-> SignatureLenMsg, tx |-> <<>>]
             ELSE DecodeAndSign(bytes,
                                uint256ToBN(signature[2], signature[1]),
                                uint256ToBN(signature[4], signature[3]),
                                signature[5],
                                transaction.decode, transaction.sign)

\* toEthTx with a fault: an undefined receipt index is logged and the
\* transaction is refused (null) instead of getting index 0.
toEthTxIndexRequired(transaction, receipt) ==
    IF ~receipt.hasIndex
    THEN [kind |-> "null", log |-> <<IndexUndefinedMsg>>, tx |-> <<>>]
    ELSE IF ~transaction.hasSig
    THEN [kind |-> "null", log |-> <<NotSignedMsg>>, tx |-> <<>>]
    ELSE [kind |-> "tx", log |-> <<>>,
          tx |-> <<[hash |-> transaction.bytes,
                    type |-> bigIntToHex(transaction.type),
                    transactionIndex |-> bigIntToHex(receipt.transactionIndex),
                    v |-> transaction.v, r |-> transaction.r, s |-> transaction.s]>>]

\* toEthTx({transaction, receipt, blockNumber, blockHash}): the JSON-RPC
\* transaction, or null when r, s or v is missing.  An undefined receipt
\* index is logged and replaced by 0.  The hash stands for the content hash
\* of the serialization: the serialized bytes themselves.
toEthTx(transaction, receipt) ==
    LET index == IF receipt.hasIndex THEN receipt.transactionIndex ELSE 0
        logs  == IF receipt.hasIndex THEN <<>> ELSE <<IndexUndefinedMsg>> IN
    IF ~transaction.hasSig
    THEN [kind |-> "null", log |-> Append(logs, NotSignedMsg), tx |-> <<>>]
    ELSE [kind |-> "tx", log |-> logs,
          tx |-> <<[hash |-> transaction.bytes,
                    type |-> bigIntToHex(transaction.type),
                    transactionIndex |-> bigIntToHex(index),
                    v |-> transaction.v, r |-> transaction.r, s |-> transaction.s]>>]

-----------------------------------------------------------------------------
(* Collaborators of transform whose files are not part of the sources:      *)
(* types/log.ts, types/receipt.ts, types/header.ts and the Bloom and Trie   *)
(* classes of the Ethereum libraries.                                       *)

\* The three bits the bloom sets for an item (a stand-in for the three
\* 11-bit slices of the item's hash).
BloomBitsOf(item) ==
    {(item * 7) % BloomSize, (item * 13 + 1) % BloomSize, (item * 31 + 2) % BloomSize}

\* Bloom.or: the bitwise OR of two blooms, each the set of its set bits.
BloomOr(a, b) == a \cup b

\* toEthLog({transaction, event, ...}): the JSON-RPC log of an event, or null
\* (the empty sequence) for an ignored selector or an unexpected key count.
toEthLog(ethTx, e) ==
    IF e.kind # "log" THEN <<>>
    ELSE <<[address |-> e.address,
            transactionHash |-> ethTx.hash,
            transactionIndex |-> ethTx.transactionIndex,
            logIndex |-> <<>>]>>

\* toEthReceipt({transaction, logs, event, cumulativeGasUsed, ...}): gasUsed
\* comes from the transaction_executed event, cumulativeGasUsed is the running
\* total handed in plus that gasUsed, and the bloom holds every log's bits.
toEthReceipt(ethTx, logs, event, cumulativeGas) ==
    [transactionHash |-> ethTx.hash,
     transactionIndex |-> ethTx.transactionIndex,
     gasUsed |-> bigIntToHex(event.gasUsed),
     cumulativeGasUsed |-> bigIntToHex(cumulativeGas + event.gasUsed),
     logsBloom |-> UNION {BloomBitsOf(logs[k].address) : k \in 1..Len(logs)},
     logs |-> logs,
     status |-> IF event.success THEN 1 ELSE 0]

\* encodeReceipt(fromJsonRpcReceipt(receipt), type): the receipt trie's value.
encodeReceipt(ethReceipt, type) ==
    [type |-> type,
     status |-> ethReceipt.status,
     cumulativeGasUsed |-> hexToNumber(ethReceipt.cumulativeGasUsed),
     logsBloom |-> ethReceipt.logsBloom,
     logs |-> [k \in 1..Len(ethReceipt.logs) |-> ethReceipt.logs[k].address]]

\* Trie.put(key, value): insert or overwrite.  A trie is the set of its
\* <<key, value>> pairs.
TriePut(trie, key, value) == {p \in trie : p[1] # key} \cup {<<key, value>>}

\* Trie.root(): the digest committing to the trie's content, here the content.
TrieRoot(trie) == trie

\* toEthHeader({header, gasUsed, logsBloom, receiptRoot, transactionRoot, ...}).
toEthHeader(gasUsed, logsBloom, receiptRoot, transactionRoot) ==
    [gasUsed |-> bigIntToHex(gasUsed),
     logsBloom |-> logsBloom,
     receiptRoot |-> receiptRoot,
     transactionRoot |-> transactionRoot]

-----------------------------------------------------------------------------
(* The blocks the model explores *)

\* One element of the events list: {transaction, receipt, event}.  `decode`
\* and `sign` say what the transaction library makes of the payload.
Invocation(hasCalldata, calldata, signature, decode, sign, hasIndex, index, gasUsed, evs) ==
    [transaction |-> [hasCalldata |-> hasCalldata, calldata |-> calldata,
                      signature |-> signature, decode |-> decode, sign |-> sign],
     receipt |-> [hasIndex |-> hasIndex, transactionIndex |-> index, events |-> evs],
     event |-> [gasUsed |-> gasUsed, success |-> TRUE]]

\* Raw events.
LogEvent(address) == [kind |-> "log", address |-> address]
IgnoredEvent      == [kind |-> "ignored", address |-> 0]
BadKeysEvent      == [kind |-> "badKeys", address |-> 0]

\* A single call carrying the payload bytes: call array length 1, then to,
\* selector, data offset, data length and calldata length.
SingleCall(payload) == <<1, 9, 9, 0, Len(payload), Len(payload)>> \o payload

\* Invocations that decode: fee-market (v = 1), legacy (v = 37), access-list
\* (v = 0), and a fee-market one whose receipt has no transactionIndex.
Decodable ==
    { Invocation(TRUE, SingleCall(<<2, 201>>), <<5, 0, 6, 0, 1>>, "ok", "ok",
                 TRUE, 0, 1, <<LogEvent(1)>>),
      Invocation(TRUE, SingleCall(<<200, 202>>), <<5, 0, 6, 0, 37>>, "ok", "ok",
                 TRUE, 1, 2, <<LogEvent(2), IgnoredEvent, LogEvent(3)>>),
      Invocation(TRUE, SingleCall(<<1, 203>>), <<5, 0, 6, 0, 0>>, "ok", "ok",
                 TRUE, 2, 3, <<BadKeysEvent>>),
      Invocation(TRUE, SingleCall(<<2, 204>>), <<5, 0, 6, 0, 0>>, "ok", "ok",
                 FALSE, 0, 2, <<LogEvent(4)>>) }

\* Invocations that do not decode.
Undecodable ==
    { \* no calldata; an empty calldata array
      Invocation(FALSE, <<>>, <<5, 0, 6, 0, 1>>, "ok", "ok", TRUE, 3, 1, <<LogEvent(5)>>),
      Invocation(TRUE, <<>>, <<5, 0, 6, 0, 1>>, "ok", "ok", TRUE, 3, 1, <<LogEvent(5)>>),
      \* a multi-call; a calldata shorter than the metadata prefix
      Invocation(TRUE, <<2, 9, 9, 0, 2, 2, 2, 205>>, <<5, 0, 6, 0, 1>>, "ok", "ok",
                 TRUE, 3, 1, <<LogEvent(5)>>),
      Invocation(TRUE, <<1, 9, 9>>, <<5, 0, 6, 0, 1>>, "ok", "ok", TRUE, 3, 1, <<LogEvent(5)>>),
      \* four and six signature limbs
      Invocation(TRUE, SingleCall(<<2, 206>>), <<5, 0, 6, 0>>, "NonError", "ok",
                 TRUE, 3, 1, <<LogEvent(5)>>),
      Invocation(TRUE, SingleCall(<<2, 207>>), <<5, 0, 6, 0, 1, 1>>, "ok", "ok",
                 TRUE, 3, 1, <<LogEvent(5)>>),
      \* legacy with v = 27
      Invocation(TRUE, SingleCall(<<200, 208>>), <<5, 0, 6, 0, 27>>, "ok", "ok",
                 TRUE, 3, 1, <<LogEvent(5)>>),
      \* a blob transaction; an unknown type byte
      Invocation(TRUE, SingleCall(<<3, 209>>), <<5, 0, 6, 0, 1>>, "ok", "ok",
                 TRUE, 3, 1, <<LogEvent(5)>>),
      Invocation(TRUE, SingleCall(<<5, 210>>), <<5, 0, 6, 0, 1>>, "ok", "ok",
                 TRUE, 3, 1, <<LogEvent(5)>>),
      \* malformed RLP; a thrown value that is no Error; a refused signature
      Invocation(TRUE, SingleCall(<<2, 211>>), <<5, 0, 6, 0, 1>>, "Error", "ok",
                 TRUE, 3, 1, <<LogEvent(5)>>),
      Invocation(TRUE, SingleCall(<<2, 212>>), <<5, 0, 6, 0, 1>>, "NonError", "ok",
                 TRUE, 3, 1, <<LogEvent(5)>>),
      Invocation(TRUE, SingleCall(<<200, 213>>), <<5, 0, 6, 0, 37>>, "ok", "Error",
                 TRUE, 3, 1, <<LogEvent(5)>>) }

Invocations == Decodable \cup Undecodable

\* The event lists of at most MaxEvents pairwise different invocations, in
\* every delivery order.
EventLists ==
    UNION { { l \in [1..n -> Invocations] :
                \A a, b \in 1..n : a # b => l[a] # l[b] } : n \in 0..MaxEvents }

-----------------------------------------------------------------------------
(* src/src/main.ts: transform({header, events}) *)

VARIABLES
    events,             \* the events argument: [present, list]
    mapIdx,             \* the element events.map(...) invokes its callback on next
    pc,                 \* where each element's async callback is
    local,              \* each callback's typedEthTx, ethTx, ethLogs, ethReceipt
    cumulativeGasUsed,  \* let cumulativeGasUsed = 0n
    blockLogsBloom,     \* const blockLogsBloom = new Bloom()
    transactionTrie,    \* const transactionTrie = new Trie()
    receiptTrie,        \* const receiptTrie = new Trie()
    store,              \* const store: Array<StoreItem> = []
    console,            \* what console.error has received, in order
    result,             \* transform's promise: "pending", "returned", "rejected"
    output,             \* the array transform returned
    ref                 \* a second call of transform, on the same block without
                        \* its dropped invocations (used by SpecPair only)

vars == <<events, mapIdx, pc, local, cumulativeGasUsed, blockLogsBloom,
          transactionTrie, receiptTrie, store, console, result, output, ref>>

\* events ?? []
EventList == IF events.present THEN events.list ELSE <<>>

Tasks == 1..Len(EventList)

\* SyncSegment with a fault: the two null checks (lines 86-88 and 97-99) are
\* missing, so the callback goes on with null and throws a TypeError.
SyncSegmentNoNullCheck(e, gas) ==
    LET typed == toTypedEthTx(e.transaction) IN
    IF typed.kind # "tx"
    THEN [kind |-> "throw",
          log |-> IF typed.log = "" THEN <<>> ELSE <<typed.log>>,
          local |-> <<>>]
    ELSE
    LET eth == toEthTx(typed.tx[1], e.receipt) IN
    IF eth.kind # "tx"
    THEN [kind |-> "throw", log |-> eth.log, local |-> <<>>]
    ELSE
    LET ethTx == eth.tx[1]
        mapped == [k \in 1..Len(e.receipt.events) |-> toEthLog(ethTx, e.receipt.events[k])]
        ethLogs == concatBytes(mapped)
        ethLogsIndexed == [k \in 1..Len(ethLogs) |->
                              [ethLogs[k] EXCEPT !.logIndex = Digits(k - 1, 10)]]
        ethReceipt == toEthReceipt(ethTx, ethLogsIndexed, e.event, gas)
    IN  [kind |-> "await", log |-> eth.log,
         local |-> <<[typedEthTx |-> typed.tx[1], ethTx |-> ethTx,
                      ethLogs |-> ethLogsIndexed, ethReceipt |-> ethReceipt]>>]

\* SyncSegment with a fault: logIndex is the event's position in
\* receipt.events, taken before the null logs are filtered out.
SyncSegmentIndexBeforeFilter(e, gas) ==
    LET typed == toTypedEthTx(e.transaction) IN
    IF typed.kind # "tx"
    THEN [kind |-> typed.kind,
          log |-> IF typed.log = "" THEN <<>> ELSE <<typed.log>>,
          local |-> <<>>]
    ELSE
    LET eth == toEthTx(typed.tx[1], e.receipt) IN
    IF eth.kind # "tx"
    THEN [kind |-> "null", log |-> eth.log, local |-> <<>>]
    ELSE
    LET ethTx == eth.tx[1]
        mapped == [k \in 1..Len(e.receipt.events) |->
                      LET l == toEthLog(ethTx, e.receipt.events[k]) IN
                      IF l = <<>> THEN <<>>
                      ELSE <<[l[1] EXCEPT !.logIndex = Digits(k - 1, 10)]>>]
        ethLogsIndexed == concatBytes(mapped)
        ethReceipt == toEthReceipt(ethTx, ethLogsIndexed, e.event, gas)
    IN  [kind |-> "await", log |-> eth.log,
         local |-> <<[typedEthTx |-> typed.tx[1], ethTx |-> ethTx,
                      ethLogs |-> ethLogsIndexed, ethReceipt |-> ethReceipt]>>]

\* The synchronous part of the callback of one element (everything before its
\* first await): decode, format, index the logs and build the receipt from
\* the running total `gas` as it is now.  kind "await": the callback goes on to
\* put into the transaction trie; "null": it returned null; "throw": it threw.
SyncSegment(e, gas) ==
    LET typed == toTypedEthTx(e.transaction) IN
    IF typed.kind # "tx"
    THEN [kind |-> typed.kind,
          log |-> IF typed.log = "" THEN <<>> ELSE <<typed.log>>,
          local |-> <<>>]
    ELSE
    LET eth == toEthTx(typed.tx[1], e.receipt) IN
    IF eth.kind # "tx"
    THEN [kind |-> "null", log |-> eth.log, local |-> <<>>]
    ELSE
    LET ethTx == eth.tx[1]
        mapped == [k \in 1..Len(e.receipt.events) |-> toEthLog(ethTx, e.receipt.events[k])]
        ethLogs == concatBytes(mapped)
        ethLogsIndexed == [k \in 1..Len(ethLogs) |->
                              [ethLogs[k] EXCEPT !.logIndex = Digits(k - 1, 10)]]
        ethReceipt == toEthReceipt(ethTx, ethLogsIndexed, e.event, gas)
    IN  [kind |-> "await", log |-> eth.log,
         local |-> <<[typedEthTx |-> typed.tx[1], ethTx |-> ethTx,
                      ethLogs |-> ethLogsIndexed, ethReceipt |-> ethReceipt]>>]

\* TrieKey with a fault: every entry is put under the key of index 0, so the
\* put that completes last overwrites the others.
TrieKeyConstant(ethTx) == RLPencode(0)

\* The key of both tries: RLP.encode(Number(ethTx.transactionIndex)).
TrieKey(ethTx) == RLPencode(hexToNumber(ethTx.transactionIndex))

\* ItemsOf with a fault: the logs are pushed before the receipt.
ItemsOfLogsBeforeReceipt(l) ==
    <<[collection |-> "transactions", data |-> l.ethTx]>>
    \o [k \in 1..Len(l.ethLogs) |-> [collection |-> "logs", data |-> l.ethLogs[k]]]
    \o <<[collection |-> "receipts", data |-> l.ethReceipt]>>

\* The items a callback pushes: the transaction, the receipt, then each log.
ItemsOf(l) ==
    <<[collection |-> "transactions", data |-> l.ethTx],
      [collection |-> "receipts", data |-> l.ethReceipt]>>
    \o [k \in 1..Len(l.ethLogs) |-> [collection |-> "logs", data |-> l.ethLogs[k]]]

\* MergeBloom with a fault: the receipt's bloom is assigned instead of OR-ed in.
MergeBloomAssign(block, receiptBloom) == receiptBloom

\* blockLogsBloom.or(receiptBloom)
MergeBloom(block, receiptBloom) == BloomOr(block, receiptBloom)

\* PushHeader with a fault: the header item is put first (unshift).
PushHeaderFirst(items, ethHeader) ==
    <<[collection |-> "headers", data |-> ethHeader]>> \o items

\* store.push of the header item.
PushHeader(items, ethHeader) ==
    Append(items, [collection |-> "headers", data |-> ethHeader])

\* AllResolved with a fault: it waits for every promise to settle, rejected
\* ones included (Promise.allSettled).
AllSettled == \A i \in Tasks : pc[i] \in {"null", "done", "failed"}

\* AllResolved with a fault: the fan-out is not awaited (Promise.all without
\* await), so the header is assembled as soon as the map has returned.
AllResolvedNotAwaited == TRUE

\* await Promise.all(...): every callback's promise has resolved.
AllResolved == \A i \in Tasks : pc[i] \in {"null", "done"}

\* Where a callback is after its synchronous part.
PcAfter(seg) ==
    CASE seg.kind = "await" -> "awaitTxPut"
      [] seg.kind = "null"  -> "null"
      [] OTHER              -> "failed"

\* The invocation is dropped: toTypedEthTx or toEthTx returns null for it.
DroppedInv(e) ==
    LET typed == toTypedEthTx(e.transaction) IN
    \/ typed.kind = "null"
    \/ /\ typed.kind = "tx"
       /\ toEthTx(typed.tx[1], e.receipt).kind = "null"

\* The place element i of the block has in the block without its dropped
\* invocations (for an element that is not dropped).
RefIdx(i) == Cardinality({j \in 1..i : ~DroppedInv(EventList[j])})

\* The state of a call of transform on the list `list` right after line 74;
\* `place` pairs the elements of the block with those of `list`.
RunInit(list, place) ==
    [list |-> list,
     place |-> place,
     mapIdx |-> 1,
     pc |-> [i \in 1..Len(list) |-> "start"],
     local |-> [i \in 1..Len(list) |-> <<>>],
     cumulativeGasUsed |-> 0,
     blockLogsBloom |-> {},
     transactionTrie |-> {},
     receiptTrie |-> {},
     store |-> <<>>,
     result |-> "pending",
     output |-> <<>>]

\* Init with a fault: the running gas total starts at 1 instead of 0n.
InitGasOne ==
    /\ events \in {[present |-> FALSE, list |-> <<>>]}
                  \cup {[present |-> TRUE, list |-> l] : l \in EventLists}
    /\ mapIdx = 1
    /\ pc = [i \in Tasks |-> "start"]
    /\ local = [i \in Tasks |-> <<>>]
    /\ cumulativeGasUsed = 1
    /\ blockLogsBloom = {}
    /\ transactionTrie = {}
    /\ receiptTrie = {}
    /\ store = <<>>
    /\ console = <<>>
    /\ result = "pending"
    /\ output = <<>>
    /\ ref = RunInit(SelectSeq(EventList, LAMBDA e : ~DroppedInv(e)),
                      [i \in Tasks |-> IF DroppedInv(EventList[i]) THEN 0 ELSE RefIdx(i)])

\* The state of transform right after line 74, for any events argument.
Init ==
    /\ events \in {[present |-> FALSE, list |-> <<>>]}
                  \cup {[present |-> TRUE, list |-> l] : l \in EventLists}
    /\ mapIdx = 1
    /\ pc = [i \in Tasks |-> "start"]
    /\ local = [i \in Tasks |-> <<>>]
    /\ cumulativeGasUsed = 0
    /\ blockLogsBloom = {}
    /\ transactionTrie = {}
    /\ receiptTrie = {}
    /\ store = <<>>
    /\ console = <<>>
    /\ result = "pending"
    /\ output = <<>>
    /\ ref = RunInit(SelectSeq(EventList, LAMBDA e : ~DroppedInv(e)),
                      [i \in Tasks |-> IF DroppedInv(EventList[i]) THEN 0 ELSE RefIdx(i)])

\* Map with a fault: the elements are handled one after the other (a loop
\* that awaits each callback), so a callback runs to its end, puts and
\* aggregation included, before the next one starts.
MapSequential ==
    /\ mapIdx <= Len(EventList)
    /\ LET seg == SyncSegment(EventList[mapIdx], cumulativeGasUsed) IN
       /\ local' = [local EXCEPT ![mapIdx] = seg.local]
       /\ console' = console \o seg.log
       /\ IF seg.kind = "await"
          THEN LET l == seg.local[1] IN
               /\ pc' = [pc EXCEPT ![mapIdx] = "done"]
               /\ transactionTrie' = TriePut(transactionTrie, TrieKey(l.ethTx),
                                             l.typedEthTx.bytes)
               /\ receiptTrie' = TriePut(receiptTrie, TrieKey(l.ethTx),
                                         encodeReceipt(l.ethReceipt, l.typedEthTx.type))
               /\ blockLogsBloom' = MergeBloom(blockLogsBloom, l.ethReceipt.logsBloom)
               /\ cumulativeGasUsed' = cumulativeGasUsed + hexToNumber(l.ethReceipt.gasUsed)
               /\ store' = store \o ItemsOf(l)
          ELSE /\ pc' = [pc EXCEPT ![mapIdx] = PcAfter(seg)]
               /\ UNCHANGED <<cumulativeGasUsed, blockLogsBloom, transactionTrie,
                              receiptTrie, store>>
    /\ mapIdx' = mapIdx + 1
    /\ UNCHANGED <<events, result, output>>

\* events.map calls the callback of the next element, which runs to its first
\* await (lines 78-132) or returns null or throws before it.
Map ==
    /\ mapIdx <= Len(EventList)
    /\ LET seg == SyncSegment(EventList[mapIdx], cumulativeGasUsed) IN
       /\ pc' = [pc EXCEPT ![mapIdx] = PcAfter(seg)]
       /\ local' = [local EXCEPT ![mapIdx] = seg.local]
       /\ console' = console \o seg.log
    /\ mapIdx' = mapIdx + 1
    /\ UNCHANGED <<events, cumulativeGasUsed, blockLogsBloom, transactionTrie,
                   receiptTrie, store, result, output>>

\* The transaction trie put of callback i completes; the callback encodes the
\* receipt and starts the receipt trie put (lines 132-141).
TxPutDone(i) ==
    /\ mapIdx > Len(EventList)
    /\ pc[i] = "awaitTxPut"
    /\ transactionTrie' = TriePut(transactionTrie, TrieKey(local[i][1].ethTx),
                                  local[i][1].typedEthTx.bytes)
    /\ pc' = [pc EXCEPT ![i] = "awaitRcPut"]
    /\ UNCHANGED <<events, mapIdx, local, cumulativeGasUsed, blockLogsBloom,
                   receiptTrie, store, console, result, output>>

\* RcPutDone with a fault: the callback adds its gas to the total it read
\* before its awaits (0) and stores that, losing the other callbacks' gas.
RcPutDoneStaleTotal(i) ==
    /\ mapIdx > Len(EventList)
    /\ pc[i] = "awaitRcPut"
    /\ receiptTrie' = TriePut(receiptTrie, TrieKey(local[i][1].ethTx),
                              encodeReceipt(local[i][1].ethReceipt,
                                            local[i][1].typedEthTx.type))
    /\ blockLogsBloom' = MergeBloom(blockLogsBloom, local[i][1].ethReceipt.logsBloom)
    /\ cumulativeGasUsed' = 0 + hexToNumber(local[i][1].ethReceipt.gasUsed)
    /\ store' = store \o ItemsOf(local[i][1])
    /\ pc' = [pc EXCEPT ![i] = "done"]
    /\ UNCHANGED <<events, mapIdx, local, transactionTrie, console, result, output>>

\* The receipt trie put of callback i completes; the callback merges the
\* bloom, adds the gas and pushes its items (lines 141-155).
RcPutDone(i) ==
    /\ mapIdx > Len(EventList)
    /\ pc[i] = "awaitRcPut"
    /\ receiptTrie' = TriePut(receiptTrie, TrieKey(local[i][1].ethTx),
                              encodeReceipt(local[i][1].ethReceipt,
                                            local[i][1].typedEthTx.type))
    /\ blockLogsBloom' = MergeBloom(blockLogsBloom, local[i][1].ethReceipt.logsBloom)
    /\ cumulativeGasUsed' = cumulativeGasUsed + hexToNumber(local[i][1].ethReceipt.gasUsed)
    /\ store' = store \o ItemsOf(local[i][1])
    /\ pc' = [pc EXCEPT ![i] = "done"]
    /\ UNCHANGED <<events, mapIdx, local, transactionTrie, console, result, output>>

\* A trie put of callback i fails: the callback's promise rejects.
PutFail(i) ==
    /\ mapIdx > Len(EventList)
    /\ pc[i] \in {"awaitTxPut", "awaitRcPut"}
    /\ pc' = [pc EXCEPT ![i] = "failed"]
    /\ UNCHANGED <<events, mapIdx, local, cumulativeGasUsed, blockLogsBloom,
                   transactionTrie, receiptTrie, store, console, result, output>>

\* Promise.all rejects as soon as one callback's promise has: transform rejects.
Reject ==
    /\ mapIdx > Len(EventList)
    /\ result = "pending"
    /\ \E i \in Tasks : pc[i] = "failed"
    /\ result' = "rejected"
    /\ UNCHANGED <<events, mapIdx, pc, local, cumulativeGasUsed, blockLogsBloom,
                   transactionTrie, receiptTrie, store, console, output>>

\* Promise.all resolves; the header is assembled and pushed and the store is
\* returned (lines 159-175).
Finalize ==
    /\ mapIdx > Len(EventList)
    /\ result = "pending"
    /\ AllResolved
    /\ store' = PushHeader(store, toEthHeader(cumulativeGasUsed, blockLogsBloom,
                                              TrieRoot(receiptTrie),
                                              TrieRoot(transactionTrie)))
    /\ output' = store'
    /\ result' = "returned"
    /\ UNCHANGED <<events, mapIdx, pc, local, cumulativeGasUsed, blockLogsBloom,
                   transactionTrie, receiptTrie, console>>

\* toEthHeader throws (the source header is incomplete): transform rejects.
HeaderFail ==
    /\ mapIdx > Len(EventList)
    /\ result = "pending"
    /\ AllResolved
    /\ result' = "rejected"
    /\ UNCHANGED <<events, mapIdx, pc, local, cumulativeGasUsed, blockLogsBloom,
                   transactionTrie, receiptTrie, store, console, output>>

Next ==
    \/ Map /\ UNCHANGED ref
    \/ \E i \in Tasks : TxPutDone(i) /\ UNCHANGED ref
    \/ \E i \in Tasks : RcPutDone(i) /\ UNCHANGED ref
    \/ \E i \in Tasks : PutFail(i) /\ UNCHANGED ref
    \/ Reject /\ UNCHANGED ref
    \/ Finalize /\ UNCHANGED ref
    \/ HeaderFail /\ UNCHANGED ref

Spec == Init /\ [][Next]_vars

-----------------------------------------------------------------------------
(* Two calls of transform side by side: one on the block, one (ref) on the  *)
(* block without its dropped invocations.  Every step of the first is taken *)
(* by the second for the same invocation, except the steps of the dropped   *)
(* invocations, which the second does not have.  The steps of ref are the   *)
(* steps of transform above, on a record of its variables; a step that is   *)
(* not enabled in ref leaves ref as it is.                                  *)

\* Map, on ref.
RefMap(R) ==
    IF R.mapIdx > Len(R.list) THEN R
    ELSE LET seg == SyncSegment(R.list[R.mapIdx], R.cumulativeGasUsed) IN
         [R EXCEPT !.pc[R.mapIdx] = PcAfter(seg),
                   !.local[R.mapIdx] = seg.local,
                   !.mapIdx = R.mapIdx + 1]

\* TxPutDone(j), on ref.
RefTxPutDone(R, j) ==
    IF ~(R.mapIdx > Len(R.list) /\ j \in 1..Len(R.list) /\ R.pc[j] = "awaitTxPut") THEN R
    ELSE [R EXCEPT !.transactionTrie = TriePut(R.transactionTrie,
                                               TrieKey(R.local[j][1].ethTx),
                                               R.local[j][1].typedEthTx.bytes),
                   !.pc[j] = "awaitRcPut"]

\* RcPutDone(j), on ref.
RefRcPutDone(R, j) ==
    IF ~(R.mapIdx > Len(R.list) /\ j \in 1..Len(R.list) /\ R.pc[j] = "awaitRcPut") THEN R
    ELSE [R EXCEPT !.receiptTrie = TriePut(R.receiptTrie,
                                           TrieKey(R.local[j][1].ethTx),
                                           encodeReceipt(R.local[j][1].ethReceipt,
                                                         R.local[j][1].typedEthTx.type)),
                   !.blockLogsBloom = MergeBloom(R.blockLogsBloom,
                                                 R.local[j][1].ethReceipt.logsBloom),
                   !.cumulativeGasUsed = R.cumulativeGasUsed
                                           + hexToNumber(R.local[j][1].ethReceipt.gasUsed),
                   !.store = R.store \o ItemsOf(R.local[j][1]),
                   !.pc[j] = "done"]

\* PutFail(j), on ref.
RefPutFail(R, j) ==
    IF ~(R.mapIdx > Len(R.list) /\ j \in 1..Len(R.list)
         /\ R.pc[j] \in {"awaitTxPut", "awaitRcPut"}) THEN R
    ELSE [R EXCEPT !.pc[j] = "failed"]

\* Reject, on ref.
RefReject(R) ==
    IF ~(R.mapIdx > Len(R.list) /\ R.result = "pending"
         /\ \E j \in 1..Len(R.list) : R.pc[j] = "failed") THEN R
    ELSE [R EXCEPT !.result = "rejected"]

\* Finalize, on ref.
RefFinalize(R) ==
    IF ~(R.mapIdx > Len(R.list) /\ R.result = "pending"
         /\ \A j \in 1..Len(R.list) : R.pc[j] \in {"null", "done"}) THEN R
    ELSE LET items == PushHeader(R.store,
                                 toEthHeader(R.cumulativeGasUsed, R.blockLogsBloom,
                                             TrieRoot(R.receiptTrie),
                                             TrieRoot(R.transactionTrie)))
         IN  [R EXCEPT !.store = items, !.output = items, !.result = "returned"]

\* HeaderFail, on ref.
RefHeaderFail(R) ==
    IF ~(R.mapIdx > Len(R.list) /\ R.result = "pending"
         /\ \A j \in 1..Len(R.list) : R.pc[j] \in {"null", "done"}) THEN R
    ELSE [R EXCEPT !.result = "rejected"]

PairMap ==
    /\ Map
    /\ ref' = IF ref.place[mapIdx] = 0 THEN ref ELSE RefMap(ref)

PairTxPutDone(i) == TxPutDone(i) /\ ref' = RefTxPutDone(ref, ref.place[i])

PairRcPutDone(i) == RcPutDone(i) /\ ref' = RefRcPutDone(ref, ref.place[i])

PairPutFail(i) == PutFail(i) /\ ref' = RefPutFail(ref, ref.place[i])

PairReject == Reject /\ ref' = RefReject(ref)

PairFinalize == Finalize /\ ref' = RefFinalize(ref)

PairHeaderFail == HeaderFail /\ ref' = RefHeaderFail(ref)

NextPair ==
    \/ PairMap
    \/ \E i \in Tasks : PairTxPutDone(i)
    \/ \E i \in Tasks : PairRcPutDone(i)
    \/ \E i \in Tasks : PairPutFail(i)
    \/ PairReject
    \/ PairFinalize
    \/ PairHeaderFail

SpecPair == Init /\ [][NextPair]_vars

-----------------------------------------------------------------------------
(* Vocabulary of the properties *)

\* The payload bytes an invocation carries; a transaction's hash stands for them.
PayloadOf(e) ==
    concatBytes([k \in 1..Len(Slice6(e.transaction.calldata)) |->
                    bigIntToBytes(Slice6(e.transaction.calldata)[k])])

\* The hash an item belongs to.
HashOfItem(item) ==
    IF item.collection = "transactions" THEN item.data.hash
    ELSE item.data.transactionHash

\* The items of a collection, in the order they have in `items`.
ItemsIn(items, collection) ==
    SelectSeq(items, LAMBDA it : it.collection = collection)

\* The items of a sequence that are not the header.
NonHeader(items) == SelectSeq(items, LAMBDA it : it.collection # "headers")

\* How many items of a collection carry the payload of invocation e.
CountFor(items, collection, e) ==
    Cardinality({k \in 1..Len(items) :
                    /\ items[k].collection = collection
                    /\ HashOfItem(items[k]) = PayloadOf(e)})

\* No item in `items` stems from invocation e.
NoItemOf(items, e) ==
    \A k \in 1..Len(items) :
        items[k].collection # "headers" => HashOfItem(items[k]) # PayloadOf(e)

\* The callback of element i has run its synchronous part.
Mapped(i) == i < mapIdx

\* Element i survived decoding: its callback reached the transaction trie put.
Survives(i) == local[i] # <<>>

\* Element i has a usable call: calldata present, not empty, one call.
SingleCallOk(e) ==
    /\ e.transaction.hasCalldata
    /\ Len(e.transaction.calldata) > 0
    /\ e.transaction.calldata[1] = 1

RECURSIVE SumGas(_)
\* The sum of gasUsed over a sequence of receipt items.
SumGas(rcs) ==
    IF Len(rcs) = 0 THEN 0
    ELSE hexToNumber(rcs[1].data.gasUsed) + SumGas(Tail(rcs))

\* The transactionIndex of an item, as a number.
IndexOfItem(item) == hexToNumber(item.data.transactionIndex)

-----------------------------------------------------------------------------
(* Properties *)

\* C1: when transform has returned, each receipt's cumulativeGasUsed is the
\* sum of gasUsed over the receipts of the surviving transactions whose
\* transactionIndex is not larger than its own (surviving indices pairwise
\* different), whatever the delivery order.
C1_CumulativeGasInIndexOrder ==
    result = "returned" =>
        LET rcs == ItemsIn(output, "receipts") IN
        (\A a, b \in 1..Len(rcs) : a # b => IndexOfItem(rcs[a]) # IndexOfItem(rcs[b]))
        => \A a \in 1..Len(rcs) :
               hexToNumber(rcs[a].data.cumulativeGasUsed) =
                   SumGas(SelectSeq(rcs, LAMBDA r : IndexOfItem(r) <= IndexOfItem(rcs[a])))

\* C2: in the returned sequence the items of the surviving transactions
\* appear in ascending transactionIndex order.
C2_ItemsInIndexOrder ==
    result = "returned" =>
        LET its == NonHeader(output) IN
        \A a, b \in 1..Len(its) : a < b => IndexOfItem(its[a]) <= IndexOfItem(its[b])

\* C3: a returned sequence holds exactly one header item, as its last
\* element, exactly one transaction item and one receipt item per surviving
\* invocation and none for a dropped one; also for an empty or absent list.
C3_OneHeaderLast ==
    result = "returned" =>
        /\ Len(output) >= 1
        /\ output[Len(output)].collection = "headers"
        /\ Len(ItemsIn(output, "headers")) = 1
        /\ Len(ItemsIn(output, "transactions")) = Cardinality({i \in Tasks : Survives(i)})
        /\ Len(ItemsIn(output, "receipts")) = Cardinality({i \in Tasks : Survives(i)})
        /\ \A i \in Tasks :
              /\ Survives(i) => /\ CountFor(output, "transactions", EventList[i]) = 1
                                /\ CountFor(output, "receipts", EventList[i]) = 1
              /\ ~Survives(i) => NoItemOf(output, EventList[i])

\* C3 witness: transform returned for a list with a dropped and a surviving
\* invocation.
C3_Witness ==
    /\ result = "returned"
    /\ \E i, j \in Tasks : pc[i] = "null" /\ pc[j] = "done"

\* C5: transform returns only when every callback resolved, and then the
\* whole store; once a callback failed (a trie put failed, a value that is no
\* Error was thrown while decoding) it returns nothing, not a partial store.
C5_AllOrNothing ==
    /\ result = "returned" =>
          /\ \A i \in Tasks : pc[i] \in {"null", "done"}
          /\ output = store
          /\ \A i \in Tasks : pc[i] = "done" =>
                CountFor(output, "transactions", EventList[i]) = 1
    /\ (\E i \in Tasks : pc[i] = "failed") => result # "returned"
    /\ result # "returned" => output = <<>>

\* C5 witness: a callback failed after another had pushed its items, and
\* transform rejected with nothing returned.
C5_Witness ==
    /\ result = "rejected"
    /\ \E i, j \in Tasks : pc[i] = "failed" /\ pc[j] = "done"
    /\ store # <<>>
    /\ output = <<>>

\* C6: an invocation whose first call argument is not 1 is dropped
\* (toTypedEthTx gives null, nothing is thrown) and no item stems from it.
C6_MultiCallDropped ==
    \A i \in Tasks :
        LET e == EventList[i] IN
        (/\ e.transaction.hasCalldata
         /\ Len(e.transaction.calldata) > 0
         /\ e.transaction.calldata[1] # 1)
        => /\ pc[i] \in {"start", "null"}
           /\ Mapped(i) => pc[i] = "null"
           /\ NoItemOf(store, e)

\* C6 witness: the block of a dropped multi-call went on: transform returned
\* with the items of another invocation.
C6_Witness ==
    /\ result = "returned"
    /\ \E i, j \in Tasks :
          /\ EventList[i].transaction.hasCalldata
          /\ Len(EventList[i].transaction.calldata) > 0
          /\ EventList[i].transaction.calldata[1] # 1
          /\ pc[i] = "null"
          /\ pc[j] = "done"
          /\ CountFor(output, "transactions", EventList[j]) = 1

\* C7: an invocation with a single call whose signature does not have 5
\* limbs is dropped before any decoding (so nothing the decoder would throw
\* gets out) and no item stems from it.
C7_SignatureLengthDropped ==
    \A i \in Tasks :
        LET e == EventList[i] IN
        (SingleCallOk(e) /\ Len(e.transaction.signature) # 5)
        => /\ pc[i] \in {"start", "null"}
           /\ Mapped(i) => pc[i] = "null"
           /\ NoItemOf(store, e)

\* C7 witness: transform returned for a list with a four-limb and a six-limb
\* signature and a surviving invocation.
C7_Witness ==
    /\ result = "returned"
    /\ \E i, j, k \in Tasks :
          /\ SingleCallOk(EventList[i]) /\ Len(EventList[i].transaction.signature) = 4
          /\ SingleCallOk(EventList[j]) /\ Len(EventList[j].transaction.signature) = 6
          /\ pc[i] = "null" /\ pc[j] = "null" /\ pc[k] = "done"

\* The signature of element e reaches addSignature with a decoded transaction
\* of one of the three supported types.
ReachesSigning(e) ==
    /\ SingleCallOk(e)
    /\ Len(e.transaction.signature) = 5
    /\ LET unsigned == fromSerializedData(PayloadOf(e), e.transaction.decode) IN
       /\ unsigned.kind = "tx"
       /\ unsigned.type \in {LegacyType, AccessListType, FeeMarketType}

\* Element e decodes to a legacy transaction and carries v < 35.
LegacyLowV(e) ==
    /\ fromSerializedData(PayloadOf(e), e.transaction.decode).type = LegacyType
    /\ e.transaction.signature[5] < 35

\* C8: of the invocations whose transaction reaches signature attachment,
\* exactly the legacy ones with v < 35 are refused for their v: they are
\* dropped (nothing is thrown) with the invalid-v diagnostic, and every other
\* one (legacy with v >= 35, access-list or fee-market with any v) survives
\* unless the library refuses the signed data, and never with that diagnostic.
C8_OnlyLegacyLowVRefused ==
    /\ \A i \in Tasks :
          LET e == EventList[i]
              lowV == LegacyLowV(e) IN
          (Mapped(i) /\ ReachesSigning(e)) =>
              /\ lowV => pc[i] = "null"
              /\ (~lowV /\ e.transaction.sign = "ok") => Survives(i)
              /\ (~lowV /\ e.transaction.sign # "ok") => pc[i] = "null"
    /\ Cardinality({k \in 1..Len(console) : console[k] = InvalidVMsg})
          = Cardinality({i \in Tasks : Mapped(i) /\ ReachesSigning(EventList[i])
                                         /\ LegacyLowV(EventList[i])})

\* C8 witness: transform returned for a list with a legacy v = 27 (dropped),
\* a legacy v = 37 (kept) and a typed transaction with v in {0, 1} (kept).
C8_Witness ==
    /\ result = "returned"
    /\ \E i, j, k \in Tasks :
          /\ ReachesSigning(EventList[i]) /\ LegacyLowV(EventList[i])
          /\ EventList[i].transaction.signature[5] = 27 /\ pc[i] = "null"
          /\ ReachesSigning(EventList[j]) /\ EventList[j].transaction.signature[5] = 37
          /\ fromSerializedData(PayloadOf(EventList[j]),
                                EventList[j].transaction.decode).type = LegacyType
          /\ pc[j] = "done"
          /\ ReachesSigning(EventList[k]) /\ EventList[k].transaction.signature[5] \in {0, 1}
          /\ fromSerializedData(PayloadOf(EventList[k]),
                                EventList[k].transaction.decode).type
                \in {AccessListType, FeeMarketType}
          /\ pc[k] = "done"

\* C9: an invocation whose calldata is absent, empty or shorter than the six
\* metadata elements is dropped (its callback returns null) and the block
\* goes on.
C9_MissingCalldataDropped ==
    \A i \in Tasks :
        LET e == EventList[i] IN
        (Mapped(i) /\ (~e.transaction.hasCalldata \/ Len(e.transaction.calldata) < 6))
        => pc[i] = "null"

\* C10: the bloom handed to the header is the OR of the blooms of the
\* receipts of all surviving transactions, whatever the order of the merges.
C10_BlockBloomIsOrOfReceipts ==
    result = "returned" =>
        /\ blockLogsBloom =
              UNION {local[i][1].ethReceipt.logsBloom : i \in {j \in Tasks : Survives(j)}}
        /\ blockLogsBloom =
              UNION {ItemsIn(output, "receipts")[k].data.logsBloom :
                        k \in 1..Len(ItemsIn(output, "receipts"))}
        /\ output[Len(output)].data.logsBloom = blockLogsBloom

\* C10 witness: transform returned after merging two different non-empty
\* receipt blooms, neither containing the other.
C10_Witness ==
    /\ result = "returned"
    /\ \E i, j \in Tasks :
          /\ pc[i] = "done" /\ pc[j] = "done"
          /\ ~(local[i][1].ethReceipt.logsBloom \subseteq local[j][1].ethReceipt.logsBloom)
          /\ ~(local[j][1].ethReceipt.logsBloom \subseteq local[i][1].ethReceipt.logsBloom)

\* C4: an invocation for which toTypedEthTx or toEthTx returns null changes
\* nothing downstream.  Its callback only returns null: it keeps no locals
\* and no item stems from it; and at every step the call of transform on the
\* block and the call on the block without its dropped invocations hold the
\* same running gas total, block bloom, tries and store, their callbacks are
\* at the same place, and they end alike with the same output.
C4_DroppedChangesNothing ==
    /\ \A i \in Tasks :
          IF DroppedInv(EventList[i])
          THEN /\ ref.place[i] = 0
               /\ pc[i] \in {"start", "null"}
               /\ local[i] = <<>>
               /\ NoItemOf(store, EventList[i])
          ELSE /\ ref.place[i] \in 1..Len(ref.list)
               /\ ref.list[ref.place[i]] = EventList[i]
               /\ ref.pc[ref.place[i]] = pc[i]
               /\ ref.local[ref.place[i]] = local[i]
    /\ Len(ref.list) = Cardinality({i \in Tasks : ref.place[i] # 0})
    /\ ref.cumulativeGasUsed = cumulativeGasUsed
    /\ ref.blockLogsBloom = blockLogsBloom
    /\ ref.transactionTrie = transactionTrie
    /\ ref.receiptTrie = receiptTrie
    /\ ref.store = store
    /\ ref.result = result
    /\ ref.output = output

\* C4 witness: transform returned items for a block with a dropped
\* invocation ahead of a surviving one, and so did the call without it.
C4_Witness ==
    /\ result = "returned"
    /\ ref.result = "returned"
    /\ Len(ref.list) < Len(EventList)
    /\ \E i, j \in Tasks : i < j /\ DroppedInv(EventList[i]) /\ pc[i] = "null" /\ pc[j] = "done"

\* The events of element i the log formatter keeps (does not answer null
\* for), in the order of receipt.events.
KeptEvents(i) ==
    SelectSeq(EventList[i].receipt.events,
              LAMBDA ev : toEthLog(local[i][1].ethTx, ev) # <<>>)

RECURSIVE KeptEventCount(_)
\* The number of kept events of the surviving elements among the first n.
KeptEventCount(n) ==
    IF n = 0 THEN 0
    ELSE KeptEventCount(n - 1) + (IF Survives(n) THEN Len(KeptEvents(n)) ELSE 0)

\* The log items of element i, in the order they have in `items`.
LogsOf(items, i) ==
    SelectSeq(items, LAMBDA it : /\ it.collection = "logs"
                                 /\ it.data.transactionHash = local[i][1].ethTx.hash)

\* C11: a returned sequence holds as many log items as the surviving
\* transactions have events the log formatter keeps, and the logs of one
\* transaction are its kept events in order, with logIndex 0, 1, ..., k-1:
\* a filtered event takes no index and every transaction starts at 0.
C11_LogCountAndIndex ==
    result = "returned" =>
        /\ Len(ItemsIn(output, "logs")) = KeptEventCount(Len(EventList))
        /\ \A i \in Tasks : Survives(i) =>
              LET mine == LogsOf(output, i)
                  kept == KeptEvents(i) IN
              /\ Len(mine) = Len(kept)
              /\ \A k \in 1..Len(mine) :
                    /\ mine[k].data.logIndex = Digits(k - 1, 10)
                    /\ mine[k].data.address = kept[k].address

\* C11 witness: transform returned the logs of two transactions, one of them
\* with a filtered event between two kept ones.
C11_Witness ==
    /\ result = "returned"
    /\ \E i, j \in Tasks :
          /\ i # j /\ pc[i] = "done" /\ pc[j] = "done"
          /\ Len(KeptEvents(i)) = 2
          /\ Len(EventList[i].receipt.events) = 3
          /\ toEthLog(local[i][1].ethTx, EventList[i].receipt.events[2]) = <<>>
          /\ Len(LogsOf(output, i)) = 2
          /\ Len(LogsOf(output, j)) = 1

\* C12: for a block none of whose invocations survives (no list, an empty
\* list, or every invocation dropped) no callback gets to a trie put, both
\* tries stay empty, the running gas total stays 0 and the block bloom stays
\* all-zero, and the returned header carries gasUsed 0, the all-zero bloom
\* and the root of the empty trie for both tries.
C12_NoSurvivorEmptyHeader ==
    (\A i \in Tasks : DroppedInv(EventList[i])) =>
        /\ \A i \in Tasks : pc[i] \in {"start", "null"} /\ ~Survives(i)
        /\ transactionTrie = {}
        /\ receiptTrie = {}
        /\ cumulativeGasUsed = 0
        /\ blockLogsBloom = {}
        /\ result = "returned" =>
              output = <<[collection |-> "headers",
                          data |-> [gasUsed |-> bigIntToHex(0),
                                    logsBloom |-> {},
                                    receiptRoot |-> TrieRoot({}),
                                    transactionRoot |-> TrieRoot({})]]>>

\* C12 witness: transform returned for a non-empty list all of whose
\* invocations were dropped.
C12_Witness ==
    /\ result = "returned"
    /\ Len(EventList) >= 2
    /\ \A i \in Tasks : pc[i] = "null" /\ DroppedInv(EventList[i])

\* A trie put that was issued has not completed yet.
PutPending == \E i \in Tasks : pc[i] \in {"awaitTxPut", "awaitRcPut"}

\* The steps that read receiptTrie.root() and transactionTrie.root()
\* (lines 163-164): the header is assembled, or its assembly throws.
ReadsRoots == Finalize \/ HeaderFail

\* C13: the roots of the two tries are read only once every callback has been
\* started and no put that was issued is still pending; and the roots the
\* returned header carries are those of the tries holding an entry under the
\* key of every surviving transaction.
C13_RootsReadAfterAllPuts ==
    /\ [][ReadsRoots => (mapIdx > Len(EventList) /\ ~PutPending)]_vars
    /\ [](result = "returned" =>
            /\ ~PutPending
            /\ output[Len(output)].data.transactionRoot = TrieRoot(transactionTrie)
            /\ output[Len(output)].data.receiptRoot = TrieRoot(receiptTrie)
            /\ \A i \in Tasks : Survives(i) =>
                  /\ \E p \in transactionTrie : p[1] = TrieKey(local[i][1].ethTx)
                  /\ \E p \in receiptTrie : p[1] = TrieKey(local[i][1].ethTx))

\* C13 witness: transform returned after the puts of two callbacks had
\* completed in the order opposite to delivery, and the header's roots hold
\* both entries.
C13_Witness ==
    /\ result = "returned"
    /\ \E i, j \in Tasks :
          /\ i < j /\ pc[i] = "done" /\ pc[j] = "done"
          /\ TrieKey(local[i][1].ethTx) # TrieKey(local[j][1].ethTx)
          /\ ItemsIn(output, "transactions")[1].data = local[j][1].ethTx
          /\ Cardinality(output[Len(output)].data.transactionRoot) >= 2
          /\ Cardinality(output[Len(output)].data.receiptRoot) >= 2

\* The transactionIndex values the receipts of the block carry are pairwise
\* different (a receipt without one carries none).
PresentIndicesDistinct ==
    \A i, j \in Tasks :
        (/\ i # j
         /\ EventList[i].receipt.hasIndex
         /\ EventList[j].receipt.hasIndex)
        => EventList[i].receipt.transactionIndex # EventList[j].receipt.transactionIndex

\* The keys a trie holds.
KeysOf(trie) == {p[1] : p \in trie}

\* C14: in a block whose present transactionIndex values are pairwise
\* different no two callbacks put under the same key (no put overwrites
\* another), and when transform has returned both tries hold the same keys,
\* one per surviving transaction.
C14_EachKeyPutOnce ==
    PresentIndicesDistinct =>
        /\ \A i, j \in Tasks :
              (i # j /\ Survives(i) /\ Survives(j))
              => TrieKey(local[i][1].ethTx) # TrieKey(local[j][1].ethTx)
        /\ result = "returned" =>
              /\ KeysOf(transactionTrie) = KeysOf(receiptTrie)
              /\ Cardinality(KeysOf(transactionTrie))
                    = Cardinality({i \in Tasks : Survives(i)})
              /\ Cardinality(transactionTrie) = Cardinality(KeysOf(transactionTrie))
              /\ Cardinality(receiptTrie) = Cardinality(KeysOf(receiptTrie))

\* Element e decodes to a signed transaction and its receipt carries no
\* transactionIndex.
DecodesWithoutIndex(e) ==
    /\ ~e.receipt.hasIndex
    /\ toTypedEthTx(e.transaction).kind = "tx"

\* C15: a decodable invocation whose receipt carries no transactionIndex is
\* not dropped and does not fail: toEthTx logs the diagnostic once and gives
\* it transactionIndex 0, and the callback goes on with it: it puts under the
\* key of index 0 into both tries, adds its gas and pushes its items.
C15_MissingIndexBecomesZero ==
    /\ \A i \in Tasks :
          (Mapped(i) /\ DecodesWithoutIndex(EventList[i])) =>
              /\ Survives(i)
              /\ pc[i] \in {"awaitTxPut", "awaitRcPut", "done", "failed"}
              /\ local[i][1].ethTx.transactionIndex = bigIntToHex(0)
              /\ hexToNumber(local[i][1].ethReceipt.transactionIndex) = 0
              /\ TrieKey(local[i][1].ethTx) = RLPencode(0)
              /\ pc[i] \in {"awaitRcPut", "done"} =>
                    RLPencode(0) \in KeysOf(transactionTrie)
              /\ pc[i] = "done" =>
                    /\ RLPencode(0) \in KeysOf(receiptTrie)
                    /\ cumulativeGasUsed >= EventList[i].event.gasUsed
                    /\ CountFor(store, "transactions", EventList[i]) = 1
                    /\ CountFor(store, "receipts", EventList[i]) = 1
                    /\ \A k \in 1..Len(store) :
                          (/\ store[k].collection # "headers"
                           /\ HashOfItem(store[k]) = PayloadOf(EventList[i]))
                          => IndexOfItem(store[k]) = 0
    /\ Cardinality({k \in 1..Len(console) : console[k] = IndexUndefinedMsg})
          = Cardinality({i \in Tasks : Mapped(i) /\ DecodesWithoutIndex(EventList[i])})

\* C15 witness: transform returned the items of an invocation without a
\* transactionIndex (with index 0) next to those of one with index 1.
C15_Witness ==
    /\ result = "returned"
    /\ \E i, j \in Tasks :
          /\ DecodesWithoutIndex(EventList[i]) /\ pc[i] = "done"
          /\ CountFor(output, "transactions", EventList[i]) = 1
          /\ EventList[j].receipt.hasIndex /\ pc[j] = "done"
          /\ hexToNumber(local[j][1].ethTx.transactionIndex) = 1
    /\ RLPencode(0) \in KeysOf(transactionTrie)
    /\ RLPencode(0) \in KeysOf(receiptTrie)

\* The payload of element e reaches the try block of toTypedEthTx and the
\* library does not throw a value that is no Error.
ReachesDecoding(e) ==
    /\ SingleCallOk(e)
    /\ Len(e.transaction.signature) = 5
    /\ e.transaction.decode # "NonError"

\* How decoding and signing the payload of e ends when it ends with an Error:
\* "malformed" (the RLP is malformed or the leading byte names no known
\* transaction type), "unsupported" (it decodes to a variant addSignature does
\* not sign: a blob transaction), "refused" (it decodes to a supported variant
\* and the library refuses the signed data); "none" otherwise.
DecodeFailure(e) ==
    LET bytes == PayloadOf(e) IN
    IF \/ e.transaction.decode = "Error"
       \/ bytes = <<>>
       \/ (bytes[1] <= 127 /\ bytes[1] \notin {AccessListType, FeeMarketType, BlobType})
    THEN "malformed"
    ELSE IF bytes[1] = BlobType THEN "unsupported"
    ELSE IF e.transaction.sign = "Error" THEN "refused"
    ELSE "none"

\* C16: an invocation whose payload fails to decode (malformed RLP, unknown
\* transaction type) or whose signature cannot be attached (a variant that is
\* none of legacy, access-list, fee-market; signed data the library refuses)
\* with an Error is dropped: its callback returns null, it is logged, nothing
\* is thrown, it keeps no locals and puts into no trie; transform returns the
\* header and the items of the others whenever the other callbacks resolve.
C16_DecodeFailureDropsOnlyInvocation ==
    /\ \A i \in Tasks :
          LET e == EventList[i]
              failure == DecodeFailure(e) IN
          (ReachesDecoding(e) /\ failure # "none")
          => /\ pc[i] \in {"start", "null"}
             /\ Mapped(i) => pc[i] = "null"
             /\ ~Survives(i)
             /\ Mapped(i) =>
                   \E k \in 1..Len(console) :
                       console[k] = IF failure = "unsupported" THEN InvalidTypeMsg
                                    ELSE LibraryErrorMsg
    /\ result = "returned" =>
          /\ output[Len(output)].collection = "headers"
          /\ \A j \in Tasks :
                IF pc[j] = "done"
                THEN CountFor(output, "transactions", EventList[j]) = 1
                ELSE NoItemOf(output, EventList[j])

\* C16 witness: transform returned the header and the items of a surviving
\* invocation for a block with a malformed payload and an unsupported variant.
C16_Witness ==
    /\ result = "returned"
    /\ output[Len(output)].collection = "headers"
    /\ \E i, j, k \in Tasks :
          /\ ReachesDecoding(EventList[i]) /\ DecodeFailure(EventList[i]) = "malformed"
          /\ pc[i] = "null"
          /\ ReachesDecoding(EventList[j]) /\ DecodeFailure(EventList[j]) = "unsupported"
          /\ pc[j] = "null"
          /\ pc[k] = "done"
          /\ CountFor(output, "transactions", EventList[k]) = 1

\* C17: the running total handed to the receipt builder is 0 for every
\* invocation.  As long as a callback has not run its synchronous part (in
\* which it reads the total) the total is 0: no callback has added its gas;
\* and every surviving callback's receipt is the one built from the total 0.
C17_ReceiptBuilderGetsZero ==
    /\ mapIdx <= Len(EventList) =>
          /\ cumulativeGasUsed = 0
          /\ \A i \in Tasks : pc[i] \notin {"awaitRcPut", "done"}
    /\ \A i \in Tasks : Survives(i) =>
          local[i][1].ethReceipt =
              toEthReceipt(local[i][1].ethTx, local[i][1].ethLogs, EventList[i].event, 0)

\* C17 witness: a callback has added its gas to the total and pushed its
\* items while the receipt of a callback delivered after it, built from the
\* total 0, waits for its put.
C17_Witness ==
    /\ cumulativeGasUsed > 0
    /\ \E i, j \in Tasks :
          /\ i < j
          /\ pc[i] = "done"
          /\ pc[j] \in {"awaitTxPut", "awaitRcPut"}
          /\ local[j][1].ethReceipt =
                toEthReceipt(local[j][1].ethTx, local[j][1].ethLogs, EventList[j].event, 0)
          /\ local[j][1].ethReceipt #
                toEthReceipt(local[j][1].ethTx, local[j][1].ethLogs, EventList[j].event,
                             cumulativeGasUsed)

RECURSIVE GasOfDone(_)
\* The sum of the receipts' gasUsed over the callbacks among the first n that
\* ran to their end.
GasOfDone(n) ==
    IF n = 0 THEN 0
    ELSE GasOfDone(n - 1)
         + (IF pc[n] = "done" THEN hexToNumber(local[n][1].ethReceipt.gasUsed) ELSE 0)

\* C18: the running total is at every moment the sum of gasUsed over the
\* callbacks that ran to their end, each counted once, whatever the order of
\* the continuations; so the gasUsed handed to the header is the sum of
\* gasUsed over all surviving transactions of the block.
C18_HeaderGasIsSumOfSurvivors ==
    /\ cumulativeGasUsed = GasOfDone(Len(EventList))
    /\ result = "returned" =>
          /\ \A i \in Tasks : Survives(i) => pc[i] = "done"
          /\ cumulativeGasUsed = SumGas(ItemsIn(output, "receipts"))
          /\ output[Len(output)].data.gasUsed = bigIntToHex(cumulativeGasUsed)

\* C18 witness: transform returned a header whose gasUsed is the sum of three
\* surviving transactions' gas, the continuations not in delivery order.
C18_Witness ==
    /\ result = "returned"
    /\ Cardinality({i \in Tasks : pc[i] = "done"}) = 3
    /\ \A i \in Tasks : pc[i] = "done" => hexToNumber(local[i][1].ethReceipt.gasUsed) > 0
    /\ ItemsIn(output, "transactions")[1].data # local[1][1].ethTx
    /\ hexToNumber(output[Len(output)].data.gasUsed) = cumulativeGasUsed
    /\ cumulativeGasUsed >= 5

\* The items of callback i stand in `items` from position p on as one run:
\* the transaction, the receipt, then the logs by ascending logIndex.
RunAt(items, i, p) ==
    LET l == local[i][1]
        n == Len(l.ethLogs) IN
    /\ p + 1 + n <= Len(items)
    /\ items[p] = [collection |-> "transactions", data |-> l.ethTx]
    /\ items[p + 1] = [collection |-> "receipts", data |-> l.ethReceipt]
    /\ \A k \in 1..n :
          /\ items[p + 1 + k] = [collection |-> "logs", data |-> l.ethLogs[k]]
          /\ items[p + 1 + k].data.logIndex = Digits(k - 1, 10)
    /\ \A q \in 1..Len(items) :
          (/\ items[q].collection # "headers"
           /\ HashOfItem(items[q]) = l.ethTx.hash)
          => q \in p..(p + 1 + n)

\* C19: whatever the order of the continuations, the items of a callback that
\* ran to its end stand in the store, and in the returned sequence, as one
\* contiguous run (transaction, receipt, its logs by logIndex), with no item
\* of another transaction in between and none of its items elsewhere.
C19_ItemsOfOneTransactionContiguous ==
    /\ \A i \in Tasks : pc[i] = "done" => \E p \in 1..Len(store) : RunAt(store, i, p)
    /\ result = "returned" =>
          \A i \in Tasks : Survives(i) => \E p \in 1..Len(output) : RunAt(output, i, p)

\* C19 witness: transform returned the run of a transaction with two logs
\* after the run of a transaction delivered later.
C19_Witness ==
    /\ result = "returned"
    /\ \E i, j \in Tasks :
          /\ i < j /\ pc[i] = "done" /\ pc[j] = "done"
          /\ Len(local[i][1].ethLogs) = 2
          /\ \E p, q \in 1..Len(output) :
                q < p /\ RunAt(output, i, p) /\ RunAt(output, j, q)

\* The invocations of the block, as a set: what every delivery order of the
\* same batch has in common.
Batch == {EventList[i] : i \in Tasks}

\* Every receipt of the block carries a transactionIndex and the values are
\* pairwise different.
IndicesPresentAndDistinct ==
    /\ \A i \in Tasks : EventList[i].receipt.hasIndex
    /\ PresentIndicesDistinct

\* The invocations of a batch that decode, each with what its callback builds
\* from the running total 0.
BuiltFrom(B) ==
    {[e |-> e, l |-> SyncSegment(e, 0).local[1]] :
        e \in {x \in B : SyncSegment(x, 0).kind = "await"}}

RECURSIVE GasOfSet(_)
\* The sum of the receipts' gasUsed over a set of built invocations.
GasOfSet(S) ==
    IF S = {} THEN 0
    ELSE LET b == CHOOSE x \in S : TRUE IN
         hexToNumber(b.l.ethReceipt.gasUsed) + GasOfSet(S \ {b})

\* C20: for a block whose receipts all carry pairwise different
\* transactionIndex values, the values handed to the header (gasUsed, the
\* block bloom, the content of the two tries) are determined by the set of
\* the block's invocations alone: each is equal to an expression over that set
\* in which neither the delivery order nor the order of the continuations
\* occurs, so they are the same for every permutation of the batch and every
\* interleaving.
C20_HeaderInputsOrderIndependent ==
    (result = "returned" /\ IndicesPresentAndDistinct) =>
        LET S == BuiltFrom(Batch) IN
        /\ cumulativeGasUsed = GasOfSet(S)
        /\ blockLogsBloom = UNION {b.l.ethReceipt.logsBloom : b \in S}
        /\ transactionTrie =
              {<<RLPencode(b.e.receipt.transactionIndex), b.l.typedEthTx.bytes>> : b \in S}
        /\ receiptTrie =
              {<<RLPencode(b.e.receipt.transactionIndex),
                 encodeReceipt(b.l.ethReceipt, b.l.typedEthTx.type)>> : b \in S}
        /\ output[Len(output)].data =
              toEthHeader(GasOfSet(S),
                          UNION {b.l.ethReceipt.logsBloom : b \in S},
                          TrieRoot(receiptTrie), TrieRoot(transactionTrie))

\* C20 witness: transform returned for three surviving transactions with
\* indices 0, 1, 2 that were delivered out of index order and whose
\* continuations ran out of delivery order.
C20_Witness ==
    /\ result = "returned"
    /\ IndicesPresentAndDistinct
    /\ Len(EventList) = 3
    /\ \A i \in Tasks : pc[i] = "done"
    /\ EventList[1].receipt.transactionIndex > EventList[2].receipt.transactionIndex
    /\ ItemsIn(output, "transactions")[1].data = local[3][1].ethTx
    /\ Cardinality(transactionTrie) = 3
    /\ Cardinality(receiptTrie) = 3

=============================================================================
